---- MODULE Spec2Model ----
(***************************************************************************)
(* Model of the ejfattouch.excel Ansible collection: the write_sheet       *)
(* module (validate_data, grab_sheet, write_data_to_sheet with its inner   *)
(* write_cell / write_row, and main), the readers read_sheet and           *)
(* read_document with excel_common.read_sheet_data, the loops of           *)
(* write_data_to_sheet stepped one pass at a time, and two runs of         *)
(* write_sheet on one path.                                                *)
(*                                                                         *)
(* A worksheet is modelled on a window of the (unbounded) openpyxl grid:   *)
(* rows FirstRow..LastRow and columns FirstCol..LastCol.  The window is    *)
(* placed so that it spans rows 9 and 10 and columns Y, Z and AA, where    *)
(* the address strings change length.  A write is taken only when every    *)
(* cell it visits lies in the window.                                      *)
(***************************************************************************)
EXTENDS Integers, Sequences, FiniteSets, TLC

\* ---------------------------------------------------------------- bounds
FirstRow == 9
LastRow == 10
FirstCol == 25
LastCol == 27

Rows == FirstRow..LastRow
Cols == FirstCol..LastCol
Coords == Rows \X Cols

\* ---------------------------------------------------------------- values
\* A Python value as the module sees it: its type (kind) and its payload.
\* num carries the numeric value of an int, float or bool; text the
\* characters of a str; items the elements of a list.
PyVal(k, n, t, its) == [kind |-> k, num |-> n, text |-> t, items |-> its]

None == PyVal("none", 0, "", <<>>)
PyStr(t) == PyVal("str", 0, t, <<>>)
PyInt(n) == PyVal("int", n, "", <<>>)
PyFloat(n) == PyVal("float", n, "", <<>>)
PyBool(n) == PyVal("bool", n, "", <<>>)
PyNaN == PyVal("float", 0, "nan", <<>>)
PyDict == PyVal("dict", 0, "", <<>>)
PyList(its) == PyVal("list", 0, "", its)

\* isinstance(element, (str, int, float)); bool is a subclass of int.
IsScalar(v) == v.kind \in {"str", "int", "float", "bool"}

\* type(x) is list
IsList(v) == v.kind = "list"

\* Python's == on the scalars a cell can hold: numbers compare by numeric
\* value whatever their type (1 == 1.0 == True), strings by their text, and
\* a string never equals a number; None equals only None; the float nan
\* equals nothing, itself included.
IsNaN(v) == v.kind = "float" /\ v.text = "nan"

PyEq(a, b) ==
    IF a.kind = "none" \/ b.kind = "none" THEN a.kind = b.kind
    ELSE IF a.kind = "str" \/ b.kind = "str"
         THEN a.kind = b.kind /\ a.text = b.text
         ELSE ~IsNaN(a) /\ ~IsNaN(b) /\ a.num = b.num

\* ------------------------------------------------------------- addresses
\* An address string is a sequence of characters.  Alphabet lists the
\* characters addresses are made of in code-point order (digits before
\* upper-case letters), so Ord orders characters as Python's str does.
Digits == <<"0", "1", "2", "3", "4", "5", "6", "7", "8", "9">>
Letters == <<"A", "B", "C", "D", "E", "F", "G", "H", "I", "J", "K", "L", "M",
             "N", "O", "P", "Q", "R", "S", "T", "U", "V", "W", "X", "Y", "Z">>
Alphabet == Digits \o Letters

Ord(ch) == CHOOSE i \in 1..Len(Alphabet) : Alphabet[i] = ch
IsDigit(ch) == \E i \in 1..Len(Digits) : Digits[i] = ch
IsLetter(ch) == \E i \in 1..Len(Letters) : Letters[i] = ch
DigitVal(ch) == (CHOOSE i \in 1..Len(Digits) : Digits[i] = ch) - 1
LetterVal(ch) == CHOOSE i \in 1..Len(Letters) : Letters[i] = ch

\* openpyxl.utils.get_column_letter: bijective base 26 (A=1 .. Z=26, AA=27).
RECURSIVE get_column_letter(_)
get_column_letter(col) ==
    IF col = 0 THEN <<>>
    ELSE get_column_letter((col - 1) \div 26) \o <<Letters[((col - 1) % 26) + 1]>>

\* str(row) for a positive row number.
RECURSIVE str(_)
str(n) ==
    IF n < 10 THEN <<Digits[n + 1]>>
    ELSE str(n \div 10) \o <<Digits[(n % 10) + 1]>>

\* xl_utils.get_column_letter(col) + str(row)
CellName(row, col) == get_column_letter(col) \o str(row)

\* Python's < on two strings: the first differing character decides, and a
\* proper prefix is smaller.
RECURSIVE StrLess(_, _)
StrLess(s, t) ==
    IF t = <<>> THEN FALSE
    ELSE IF s = <<>> THEN TRUE
    ELSE IF Ord(Head(s)) # Ord(Head(t)) THEN Ord(Head(s)) < Ord(Head(t))
    ELSE StrLess(Tail(s), Tail(t))

\* list.sort() on a list of strings (insertion of each element in turn
\* after the elements not greater than it, which keeps the sort stable).
RECURSIVE InsertSorted(_, _)
InsertSorted(sorted, s) ==
    IF sorted = <<>> THEN <<s>>
    ELSE IF StrLess(s, Head(sorted)) THEN <<s>> \o sorted
    ELSE <<Head(sorted)>> \o InsertSorted(Tail(sorted), s)

\* A list left in the order the cells were written in.
sort_not(l) == l

RECURSIVE sort(_)
sort(l) ==
    IF l = <<>> THEN <<>>
    ELSE InsertSorted(sort(SubSeq(l, 1, Len(l) - 1)), l[Len(l)])

\* Value of a string of letters as a column number, and of digits as int().
RECURSIVE ColumnIndex(_)
ColumnIndex(s) ==
    IF s = <<>> THEN 0
    ELSE 26 * ColumnIndex(SubSeq(s, 1, Len(s) - 1)) + LetterVal(s[Len(s)])

RECURSIVE int(_)
int(s) ==
    IF s = <<>> THEN 0
    ELSE 10 * int(SubSeq(s, 1, Len(s) - 1)) + DigitVal(s[Len(s)])

\* Index of the first digit of s, or Len(s) when it has none: the value the
\* loop variable idx of coordinate_to_tuple is left with (s non-empty).
FirstDigit(s) ==
    IF \E i \in 1..Len(s) : IsDigit(s[i])
    THEN CHOOSE i \in 1..Len(s) :
            IsDigit(s[i]) /\ \A j \in 1..(i - 1) : ~IsDigit(s[j])
    ELSE Len(s)

\* xl_utils.coordinate_to_tuple(cell): the string is split before its first
\* digit (before its last character when it has no digit); int() of the
\* second part raises ValueError unless it is all digits, then the first
\* part is looked up among the column names A..ZZZ (KeyError otherwise).
coordinate_to_tuple(cell) ==
    IF cell = <<>> THEN [err |-> "UnboundLocalError", row |-> 0, col |-> 0]
    ELSE LET idx == FirstDigit(cell)
             colpart == SubSeq(cell, 1, idx - 1)
             rowpart == SubSeq(cell, idx, Len(cell))
         IN  IF \E i \in 1..Len(rowpart) : ~IsDigit(rowpart[i])
             THEN [err |-> "ValueError", row |-> 0, col |-> 0]
             ELSE IF colpart = <<>> \/ Len(colpart) > 3
                     \/ \E i \in 1..Len(colpart) : ~IsLetter(colpart[i])
             THEN [err |-> "KeyError", row |-> 0, col |-> 0]
             ELSE [err |-> "", row |-> int(rowpart), col |-> ColumnIndex(colpart)]

\* ------------------------------------------------------------ worksheets
\* A cell of the window: an openpyxl MergedCell (merged, never written) or
\* an ordinary Cell with its value (None when empty).
MergedCell == [merged |-> TRUE, value |-> None]
Cell(v) == [merged |-> FALSE, value |-> v]

EmptyCells == [rc \in Coords |-> Cell(None)]

\* A worksheet: its title and its cells.  A workbook: its worksheets in
\* sheet order.
Sheet(title, cells) == [title |-> title, cells |-> cells]

sheetnames(wb) == [i \in 1..Len(wb) |-> wb[i].title]

SheetIndex(wb, sheet_name) == CHOOSE i \in 1..Len(wb) : wb[i].title = sheet_name

HasSheet(wb, sheet_name) == \E i \in 1..Len(wb) : wb[i].title = sheet_name

\* grab_sheet: wb.create_sheet(sheet_name) appends an empty worksheet when
\* the name is not among wb.sheetnames; the workbook it leaves behind.
grab_sheet(sheet_name, wb) ==
    IF ~HasSheet(wb, sheet_name)
    THEN Append(wb, Sheet(sheet_name, EmptyCells))
    ELSE wb

\* write_cell without the override test: a cell holding a different value
\* is overwritten whatever override is.
write_cell_ignores_override(ws, value, row, column, override) ==
    LET w_cell == ws[<<row, column>>]
    IN  IF w_cell.merged
        THEN [status |-> "False", ws |-> ws]
        ELSE IF w_cell.value = None \/ ~PyEq(w_cell.value, value)
        THEN [status |-> "True", ws |-> [ws EXCEPT ![<<row, column>>] = Cell(value)]]
        ELSE [status |-> "skipped", ws |-> ws]

\* write_cell without the comparison: with override a cell holding a value
\* is always written.
write_cell_no_compare(ws, value, row, column, override) ==
    LET w_cell == ws[<<row, column>>]
    IN  IF w_cell.merged
        THEN [status |-> "False", ws |-> ws]
        ELSE IF w_cell.value = None \/ override
        THEN [status |-> "True", ws |-> [ws EXCEPT ![<<row, column>>] = Cell(value)]]
        ELSE [status |-> "skipped", ws |-> ws]

\* write_cell without the MergedCell test.
write_cell_writes_merged(ws, value, row, column, override) ==
    LET w_cell == ws[<<row, column>>]
    IN  IF w_cell.value = None
        THEN [status |-> "True", ws |-> [ws EXCEPT ![<<row, column>>] = Cell(value)]]
        ELSE IF override /\ ~PyEq(w_cell.value, value)
        THEN [status |-> "True", ws |-> [ws EXCEPT ![<<row, column>>] = Cell(value)]]
        ELSE [status |-> "skipped", ws |-> ws]

\* write_cell(value, row, column) on the cells ws: the status it returns
\* ("False" for a merged cell, "True" for a write, "skipped" otherwise) and
\* the cells afterwards.
write_cell(ws, value, row, column, override) ==
    LET w_cell == ws[<<row, column>>]
    IN  IF w_cell.merged
        THEN [status |-> "False", ws |-> ws]
        ELSE IF w_cell.value = None
        THEN [status |-> "True", ws |-> [ws EXCEPT ![<<row, column>>] = Cell(value)]]
        ELSE IF override /\ ~PyEq(w_cell.value, value)
        THEN [status |-> "True", ws |-> [ws EXCEPT ![<<row, column>>] = Cell(value)]]
        ELSE [status |-> "skipped", ws |-> ws]

\* The loop of write_row with item_number advanced on a merged cell too:
\* the element aimed at a merged member is used up.
RECURSIVE write_row_loop_consumes(_, _, _, _, _, _)
write_row_loop_consumes(st, row_elements, item_number, row, col, override) ==
    IF item_number >= Len(row_elements) THEN st
    ELSE IF row < 1 \/ col < 1 THEN [st EXCEPT !.err = "ValueError"]
    ELSE IF <<row, col>> \notin Coords THEN [st EXCEPT !.oow = TRUE]
    ELSE LET r == write_cell(st.ws, row_elements[item_number + 1], row, col, override)
         IN  IF r.status = "True"
             THEN write_row_loop_consumes(
                      [st EXCEPT !.ws = r.ws,
                                 !.write_change = TRUE,
                                 !.cell_list = Append(@, CellName(row, col))],
                      row_elements, item_number + 1, row, col + 1, override)
             ELSE write_row_loop_consumes(st, row_elements, item_number + 1, row,
                                          col + 1, override)

\* The loop of write_row with the address appended for a skipped cell too.
RECURSIVE write_row_loop_lists_skipped(_, _, _, _, _, _)
write_row_loop_lists_skipped(st, row_elements, item_number, row, col, override) ==
    IF item_number >= Len(row_elements) THEN st
    ELSE IF row < 1 \/ col < 1 THEN [st EXCEPT !.err = "ValueError"]
    ELSE IF <<row, col>> \notin Coords THEN [st EXCEPT !.oow = TRUE]
    ELSE LET r == write_cell(st.ws, row_elements[item_number + 1], row, col, override)
         IN  IF r.status = "skipped"
             THEN write_row_loop_lists_skipped(
                      [st EXCEPT !.cell_list = Append(@, CellName(row, col))],
                      row_elements, item_number + 1, row, col + 1, override)
             ELSE IF r.status = "True"
             THEN write_row_loop_lists_skipped(
                      [st EXCEPT !.ws = r.ws,
                                 !.write_change = TRUE,
                                 !.cell_list = Append(@, CellName(row, col))],
                      row_elements, item_number + 1, row, col + 1, override)
             ELSE write_row_loop_lists_skipped(st, row_elements, item_number, row,
                                               col + 1, override)

\* The while loop of write_row from item_number (0-based, as in the code)
\* and col on.  st carries ws, cell_list and write_change; err is set when
\* ws.cell raises (row or column below 1) and oow when the loop leaves the
\* modelled window.
RECURSIVE write_row_loop(_, _, _, _, _, _)
write_row_loop(st, row_elements, item_number, row, col, override) ==
    IF item_number >= Len(row_elements) THEN st
    ELSE IF row < 1 \/ col < 1 THEN [st EXCEPT !.err = "ValueError"]
    ELSE IF <<row, col>> \notin Coords THEN [st EXCEPT !.oow = TRUE]
    ELSE LET r == write_cell(st.ws, row_elements[item_number + 1], row, col, override)
         IN  IF r.status = "skipped"
             THEN write_row_loop(st, row_elements, item_number + 1, row, col + 1, override)
             ELSE IF r.status = "True"
             THEN write_row_loop(
                      [st EXCEPT !.ws = r.ws,
                                 !.write_change = TRUE,
                                 !.cell_list = Append(@, CellName(row, col))],
                      row_elements, item_number + 1, row, col + 1, override)
             ELSE write_row_loop(st, row_elements, item_number, row, col + 1, override)

\* write_row(row_elements, row) with col = start_col: write_change starts
\* False for each row, cell_list is shared by all rows of one call.
write_row(st, row_elements, row, start_col, override) ==
    write_row_loop([st EXCEPT !.write_change = FALSE],
                   row_elements, 0, row, start_col, override)

\* The for loop without start_row += 1: every sub-list on the anchor row.
RECURSIVE write_rows_same_row(_, _, _, _, _, _, _)
write_rows_same_row(st, changed, data, i, start_row, start_col, override) ==
    IF i > Len(data) \/ st.err # "" \/ st.oow
    THEN [st EXCEPT !.write_change = changed]
    ELSE LET r == write_row(st, data[i].items, start_row, start_col, override)
         IN  write_rows_same_row(r, changed \/ r.write_change, data, i + 1,
                                 start_row, start_col, override)

\* The for loop with changed = write_row(...): the last sub-list decides.
RECURSIVE write_rows_last_changed(_, _, _, _, _, _, _)
write_rows_last_changed(st, changed, data, i, start_row, start_col, override) ==
    IF i > Len(data) \/ st.err # "" \/ st.oow
    THEN [st EXCEPT !.write_change = changed]
    ELSE LET r == write_row(st, data[i].items, start_row, start_col, override)
         IN  write_rows_last_changed(r, r.write_change, data, i + 1,
                                     start_row + 1, start_col, override)

\* The for loop over the sub-lists of a 2-D block, from sub-list i on.
RECURSIVE write_rows(_, _, _, _, _, _, _)
write_rows(st, changed, data, i, start_row, start_col, override) ==
    IF i > Len(data) \/ st.err # "" \/ st.oow
    THEN [st EXCEPT !.write_change = changed]
    ELSE LET r == write_row(st, data[i].items, start_row, start_col, override)
         IN  write_rows(r, changed \/ r.write_change, data, i + 1,
                        start_row + 1, start_col, override)

\* write_data_to_sheet(data, cell, wb, sheet_name, override): the workbook
\* afterwards, the pair (changed, cell_list) it returns, the exception it
\* raises if any (err), and whether it left the window (oow).
write_data_to_sheet(data, cell, wb, sheet_name, override) ==
    LET wb1 == grab_sheet(sheet_name, wb)
        k == SheetIndex(wb1, sheet_name)
        cell_coord == coordinate_to_tuple(cell)
        st0 == [ws |-> wb1[k].cells, cell_list |-> <<>>, write_change |-> FALSE,
                err |-> "", oow |-> FALSE]
        st == IF IsScalar(data[1])
              THEN write_row(st0, data, cell_coord.row, cell_coord.col, override)
              ELSE IF IsList(data[1])
              THEN write_rows(st0, FALSE, data, 1, cell_coord.row, cell_coord.col, override)
              ELSE st0
    IN  IF cell_coord.err # ""
        THEN [wb |-> wb1, changed |-> FALSE, cell_list |-> <<>>,
              err |-> cell_coord.err, oow |-> FALSE]
        ELSE [wb |-> [wb1 EXCEPT ![k].cells = st.ws],
              changed |-> st.write_change,
              cell_list |-> sort(st.cell_list),
              err |-> st.err, oow |-> st.oow]

\* The loop over the sub-lists without the test that each is a list.
RECURSIVE validate_sub_lists_no_type_check(_, _)
validate_sub_lists_no_type_check(data_list, i) ==
    IF i > Len(data_list) THEN ""
    ELSE IF ~\A k \in 1..Len(data_list[i].items) : IsScalar(data_list[i].items[k])
    THEN "TypeError: sublist element"
    ELSE validate_sub_lists_no_type_check(data_list, i + 1)

\* validate_data(data_list): "" when it returns True, else the exception
\* it raises, named by the check that raised it.
RECURSIVE validate_sub_lists(_, _)
validate_sub_lists(data_list, i) ==
    IF i > Len(data_list) THEN ""
    ELSE IF ~IsList(data_list[i]) THEN "TypeError: not a list"
    ELSE IF ~\A k \in 1..Len(data_list[i].items) : IsScalar(data_list[i].items[k])
    THEN "TypeError: sublist element"
    ELSE validate_sub_lists(data_list, i + 1)

validate_data(data_list) ==
    IF Len(data_list) = 0 THEN "Exception: Empty Data List"
    ELSE IF IsScalar(data_list[1])
    THEN IF ~\A k \in 1..Len(data_list) : IsScalar(data_list[k])
         THEN "TypeError: list element"
         ELSE ""
    ELSE IF IsList(data_list[1])
    THEN validate_sub_lists(data_list, 1)
    ELSE "TypeError: unsupported data"

\* ------------------------------------------------------------------- main
\* The file at path: missing, not a workbook openpyxl can open, or a
\* workbook, with the application that wrote it last (openpyxl's wb.save,
\* or Excel's save, which stores the recalculated values).
NoFile == [kind |-> "missing", wb |-> <<>>, writer |-> ""]
BadFile == [kind |-> "corrupt", wb |-> <<>>, writer |-> ""]
BookFile(book, writer) == [kind |-> "workbook", wb |-> book, writer |-> writer]

\* wb.save(filepath) whatever changed is.
save_always(changed, book, f) == BookFile(book, "openpyxl")

\* if changed: wb.save(filepath) -- the file at path afterwards.
save_if_changed(changed, book, f) ==
    IF changed THEN BookFile(book, "openpyxl") ELSE f

\* evaluate_workbook_formulas(path): Excel opens the workbook at path,
\* recalculates and saves it there.
evaluate_workbook_formulas(f) == [f EXCEPT !.writer = "excel"]

\* How the process ended and what it reported: status is "exit" for
\* exit_json, "fail" for fail_json and "crash" for an exception nothing
\* catches.  loads, saves, closes and recalcs count the calls of
\* load_workbook, wb.save, wb.close and evaluate_workbook_formulas.
Outcome(status, msg, sheet, changed, cells, evaluated, loads, saves, closes, recalcs) ==
    [status |-> status, msg |-> msg, sheet |-> sheet, changed |-> changed,
     cells |-> cells, evaluated |-> evaluated,
     loads |-> loads, saves |-> saves, closes |-> closes, recalcs |-> recalcs]

Failure(status, msg, loads, saves, closes) ==
    Outcome(status, msg, "", FALSE, <<>>, FALSE, loads, saves, closes, 0)

\* check_excel_installation and evaluate_workbook_formulas on the host:
\* "linux" raises RuntimeError, "noexcel" has no Excel, "noxlwings" has
\* Excel but import xlwings fails, "excel" recalculates.  The message of
\* the failure, "" when the formulas were evaluated.
evaluate_failure(host) ==
    IF host = "linux" THEN "Only Windows and MacOS are supported for evaluation"
    ELSE IF host = "noexcel" THEN "Excel is not installed, needed for function evaluation."
    ELSE IF host = "noxlwings" THEN "xlwings is not installed, needed for function evaluation."
    ELSE ""

\* What write_data_to_sheet returned, for a run that did not reach it.
NoRet == [called |-> FALSE, changed |-> FALSE, cell_list |-> <<>>]

\* What a run of main leaves: the file afterwards (file), the outcome
\* (out), the workbook loaded (loaded), the workbook object when the
\* process ends (book), what write_data_to_sheet returned (ret) and whether
\* the write left the window (oow).
Run(f, o, loaded, book, r, oow) ==
    [file |-> f, out |-> o, loaded |-> loaded, book |-> book, ret |-> r, oow |-> oow]

\* sheet_name = sheet_name or wb.sheetnames[0]
resolve_sheet(sheet, book) == IF sheet # "" THEN sheet ELSE sheetnames(book)[1]

\* main() with wb.save(filepath) in the ValueError handler too.
main_written_saves_on_error(f, p, host, sheet_name, r) ==
    LET saves == IF r.changed THEN 1 ELSE 0
        saved == save_if_changed(r.changed, r.wb, f)
        done == [called |-> TRUE, changed |-> r.changed, cell_list |-> r.cell_list]
    IN  IF r.err = "ValueError"
        THEN Run(BookFile(r.wb, "openpyxl"),
                 Failure("fail", "Incorrect value for cell", 1, 1, 1),
                 f.wb, r.wb, NoRet, r.oow)
        ELSE IF r.err # ""
        THEN Run(f, Failure("crash", r.err, 1, 0, 0), f.wb, r.wb, NoRet, r.oow)
        ELSE IF p.evaluate /\ evaluate_failure(host) # ""
        THEN Run(saved, Failure("fail", evaluate_failure(host), 1, saves, 1),
                 f.wb, r.wb, done, r.oow)
        ELSE Run(IF p.evaluate THEN evaluate_workbook_formulas(saved) ELSE saved,
                 Outcome("exit", "", sheet_name, r.changed, r.cell_list,
                         p.evaluate, 1, saves, 1, IF p.evaluate THEN 1 ELSE 0),
                 f.wb, r.wb, done, r.oow)

\* main() with the file put back as it was when the evaluation fails.
main_written_rolls_back(f, p, host, sheet_name, r) ==
    LET saves == IF r.changed THEN 1 ELSE 0
        saved == save_if_changed(r.changed, r.wb, f)
        done == [called |-> TRUE, changed |-> r.changed, cell_list |-> r.cell_list]
    IN  IF r.err = "ValueError"
        THEN Run(f, Failure("fail", "Incorrect value for cell", 1, 0, 1),
                 f.wb, r.wb, NoRet, r.oow)
        ELSE IF r.err # ""
        THEN Run(f, Failure("crash", r.err, 1, 0, 0), f.wb, r.wb, NoRet, r.oow)
        ELSE IF p.evaluate /\ evaluate_failure(host) # ""
        THEN Run(f, Failure("fail", evaluate_failure(host), 1, saves, 1),
                 f.wb, r.wb, done, r.oow)
        ELSE Run(IF p.evaluate THEN evaluate_workbook_formulas(saved) ELSE saved,
                 Outcome("exit", "", sheet_name, r.changed, r.cell_list,
                         p.evaluate, 1, saves, 1, IF p.evaluate THEN 1 ELSE 0),
                 f.wb, r.wb, done, r.oow)

\* main() from the return of write_data_to_sheet (r) on: the ValueError
\* handler, the save, the close and the evaluation.
main_written(f, p, host, sheet_name, r) ==
    LET saves == IF r.changed THEN 1 ELSE 0
        saved == save_if_changed(r.changed, r.wb, f)
        done == [called |-> TRUE, changed |-> r.changed, cell_list |-> r.cell_list]
    IN  IF r.err = "ValueError"
        THEN Run(f, Failure("fail", "Incorrect value for cell", 1, 0, 1),
                 f.wb, r.wb, NoRet, r.oow)
        ELSE IF r.err # ""
        THEN Run(f, Failure("crash", r.err, 1, 0, 0), f.wb, r.wb, NoRet, r.oow)
        ELSE IF p.evaluate /\ evaluate_failure(host) # ""
        THEN Run(saved, Failure("fail", evaluate_failure(host), 1, saves, 1),
                 f.wb, r.wb, done, r.oow)
        ELSE Run(IF p.evaluate THEN evaluate_workbook_formulas(saved) ELSE saved,
                 Outcome("exit", "", sheet_name, r.changed, r.cell_list,
                         p.evaluate, 1, saves, 1, IF p.evaluate THEN 1 ELSE 0),
                 f.wb, r.wb, done, r.oow)

\* main() with the file f at path, the module parameters p and the host.
main(f, p, host) ==
    IF f.kind = "missing"
    THEN Run(f, Failure("fail", "The specified excel file does not exist", 0, 0, 0),
             <<>>, <<>>, NoRet, FALSE)
    ELSE IF validate_data(p.data) # ""
    THEN Run(f, Failure("fail", validate_data(p.data), 0, 0, 0), <<>>, <<>>, NoRet, FALSE)
    ELSE IF f.kind = "corrupt"
    THEN Run(f, Failure("fail", "Failed to open workbook", 1, 0, 0),
             <<>>, <<>>, NoRet, FALSE)
    ELSE main_written(f, p, host, resolve_sheet(p.sheet, f.wb),
                      write_data_to_sheet(p.data, p.cell, f.wb,
                                          resolve_sheet(p.sheet, f.wb), p.override))

\* ------------------------------------------------------------------ state
VARIABLES
    wb,      \* the workbook object write_data_to_sheet works on
    pre,     \* the workbook as it was when the last call started
    args,    \* the arguments of the last call of write_data_to_sheet
    ret,     \* what the last call of write_data_to_sheet returned
    file,    \* the file at path
    file0,   \* the file at path when the last run of main started
    params,  \* module.params of the last run of main, and the host it ran on
    out,     \* how the last run of main ended
    vdata,   \* the argument of validate_data
    vres,    \* what validate_data did with it
    frame,   \* the locals of write_data_to_sheet while its loops run
    procs,   \* the module processes running at the same time on one path
    saved,   \* the processes that saved the file, in the order they did
    rep      \* what the repetition of the last call returned

engineVars == <<wb, pre, args, ret>>
mainVars == <<file, file0, params, out>>
validateVars == <<vdata, vres>>
laterVars == <<frame, procs, saved, rep>>
vars == <<wb, pre, args, ret, file, file0, params, out, vdata, vres,
          frame, procs, saved, rep>>

\* ----------------------------------------------------------------- inputs
\* The scalars written: a string and a number.
DataVals == {PyStr("x"), PyInt(1)}

\* Flat blocks (a row of scalars) and 2-D blocks (a list of sub-lists:
\* ragged, with an empty sub-list, and the block of one empty sub-list).
FlatBlocks ==
    {<<PyStr("x")>>, <<PyInt(1)>>, <<PyStr("x"), PyInt(1)>>}

GridBlocks ==
    {<<PyList(<<PyInt(1), PyStr("x")>>), PyList(<<PyStr("x")>>)>>,
     <<PyList(<<PyStr("x")>>), PyList(<<PyStr("x"), PyInt(1)>>)>>,
     <<PyList(<<>>), PyList(<<PyInt(1)>>)>>,
     <<PyList(<<>>)>>}

DataBlocks == FlatBlocks \cup GridBlocks

\* The anchors: the address of every cell of the window.
AnchorCells == {CellName(rc[1], rc[2]) : rc \in Coords}

\* The cells a worksheet can hold when a call starts: a cell is a merged
\* member (of a region anchored inside or outside the window), empty, or
\* holds a scalar; at most MaxMerged cells of the window are merged members.
MaxMerged == 2

CellStates == {MergedCell, Cell(None)} \cup {Cell(v) : v \in DataVals}

MergedMembers(cells) == {rc \in Coords : cells[rc].merged}

InitCells ==
    {cells \in [Coords -> CellStates] : Cardinality(MergedMembers(cells)) <= MaxMerged}

NoArgs == [data |-> <<>>, cell |-> <<>>, sheet_name |-> "", override |-> FALSE]
NoParams == [data |-> <<>>, cell |-> <<>>, sheet |-> "", override |-> FALSE,
             evaluate |-> FALSE, host |-> ""]
Idle == Outcome("idle", "", "", FALSE, <<>>, FALSE, 0, 0, 0, 0)
NoFrame == [pc |-> "none"]
NoProcs == <<>>
NoRep == [called |-> FALSE, changed |-> FALSE, cell_list |-> <<>>, wb |-> <<>>]

\* No loop is being stepped, no process runs beside another and no call
\* has been repeated.
LaterIdle ==
    /\ frame = NoFrame
    /\ procs = NoProcs
    /\ saved = <<>>
    /\ rep = NoRep

\* ------------------------------------------- write_data_to_sheet, called
Init ==
    /\ \E cells \in InitCells : wb = <<Sheet("S1", cells)>>
    /\ pre = wb
    /\ args = NoArgs
    /\ ret = NoRet
    /\ file = NoFile
    /\ file0 = file
    /\ params = NoParams
    /\ out = Idle
    /\ vdata = <<>>
    /\ vres = "none"
    /\ LaterIdle

\* One call write_data_to_sheet(data, cell, wb, sheet_name, override) that
\* returns normally and stays inside the window.
WriteDataToSheet(data, cell, sheet_name, override) ==
    /\ ~ret.called
    /\ \E r \in {write_data_to_sheet(data, cell, wb, sheet_name, override)} :
           /\ r.err = ""
           /\ ~r.oow
           /\ wb' = r.wb
           /\ ret' = [called |-> TRUE, changed |-> r.changed, cell_list |-> r.cell_list]
    /\ pre' = wb
    /\ args' = [data |-> data, cell |-> cell, sheet_name |-> sheet_name,
                override |-> override]
    /\ UNCHANGED <<mainVars, validateVars, laterVars>>

\* The caller has taken the pair returned; nothing of the call is retained
\* and the next call starts from the workbook alone.
Return ==
    /\ ret.called
    /\ pre' = wb
    /\ args' = NoArgs
    /\ ret' = NoRet
    /\ UNCHANGED <<wb, mainVars, validateVars, laterVars>>

Next ==
    \/ \E data \in DataBlocks, cell \in AnchorCells, override \in BOOLEAN :
           WriteDataToSheet(data, cell, "S1", override)
    \/ Return

Spec == Init /\ [][Next]_vars

\* ------------------------------------------------------------- main, run
\* The blocks given to main: valid ones (an int and a float of equal value
\* among them, and the block of one empty sub-list) and invalid ones.
MainData ==
    {<<PyStr("x")>>, <<PyInt(1)>>, <<PyFloat(1)>>, <<PyList(<<>>)>>,
     <<>>, <<PyInt(1), PyList(<<>>)>>}

\* The cell given to main: the first cell of the window, two references
\* coordinate_to_tuple does not accept (no digit; no letter) and one with
\* row 0, which ws.cell does not accept.
MainCells == {CellName(FirstRow, FirstCol), <<"Y">>, <<"9">>, <<"Y", "0">>}

MainSheets == {"", "S1", "S2"}
Hosts == {"linux", "noexcel", "noxlwings", "excel"}

MainParams ==
    [data : MainData, cell : MainCells, sheet : MainSheets,
     override : BOOLEAN, evaluate : BOOLEAN, host : Hosts]

\* The first cell of the only sheet holds anything a cell can hold.
FirstCellAs(c) == [EmptyCells EXCEPT ![<<FirstRow, FirstCol>>] = c]

MainFiles ==
    {NoFile, BadFile}
        \cup {BookFile(<<Sheet("S1", FirstCellAs(c))>>, w) :
                  c \in CellStates, w \in {"openpyxl", "excel"}}

InitMain ==
    /\ file \in MainFiles
    /\ file0 = file
    /\ wb = <<>>
    /\ pre = <<>>
    /\ args = NoArgs
    /\ ret = NoRet
    /\ params = NoParams
    /\ out = Idle
    /\ vdata = <<>>
    /\ vres = "none"
    /\ LaterIdle

\* One run of the module on the file at path, from the parameters to
\* exit_json, fail_json or the exception that ends the process.
WriteSheet(p) ==
    /\ out.status = "idle"
    /\ \E m \in {main(file, p, p.host)} :
           /\ ~m.oow
           /\ file' = m.file
           /\ out' = m.out
           /\ pre' = m.loaded
           /\ wb' = m.book
           /\ ret' = m.ret
           /\ args' = IF m.ret.called
                      THEN [data |-> p.data, cell |-> p.cell,
                            sheet_name |-> resolve_sheet(p.sheet, file.wb),
                            override |-> p.override]
                      ELSE NoArgs
    /\ file0' = file
    /\ params' = p
    /\ UNCHANGED <<validateVars, laterVars>>

\* The process has ended; the next task runs the module afresh on the file
\* the last one left.
NextTask ==
    /\ out.status # "idle"
    /\ out' = Idle
    /\ file0' = file
    /\ params' = NoParams
    /\ wb' = <<>>
    /\ pre' = <<>>
    /\ args' = NoArgs
    /\ ret' = NoRet
    /\ UNCHANGED <<file, validateVars, laterVars>>

NextMain ==
    \/ \E p \in MainParams : WriteSheet(p)
    \/ NextTask

SpecMain == InitMain /\ [][NextMain]_vars

\* ------------------------------------------------- the last call, observed
\* The cells of the worksheet before and after the last call.
Before == pre[1].cells
After == wb[1].cells

\* The anchor of the last call and the rows of its block: the block itself
\* for a flat block, its sub-lists for a 2-D block.
Anchor == coordinate_to_tuple(args.cell)
IsFlat == IsScalar(args.data[1])
BlockRows ==
    IF IsFlat THEN <<args.data>>
    ELSE [i \in 1..Len(args.data) |-> args.data[i].items]

\* Element j of row i of the block (both from 1), and the cell it is aimed
\* at when nothing is in the way: row anchor_row + i - 1, column
\* anchor_col + j - 1.
Elems == {ij \in (1..Len(BlockRows)) \X (1..3) : ij[2] <= Len(BlockRows[ij[1]])}
Elem(ij) == BlockRows[ij[1]][ij[2]]
Target(ij) == LET a == Anchor IN <<a.row + ij[1] - 1, a.col + ij[2] - 1>>
Targets == {Target(ij) : ij \in Elems}

Listed == {ret.cell_list[k] : k \in 1..Len(ret.cell_list)}
Modified == {rc \in Coords : After[rc] # Before[rc]}
Name(rc) == CellName(rc[1], rc[2])

\* The block aims at cells that are all ordinary and empty.
TargetsFree ==
    \A rc \in Targets : rc \in Coords /\ Before[rc] = Cell(None)

\* C1 (as stated): a call whose target cells are all ordinary and empty puts
\* every element on its target cell, returns exactly the target addresses,
\* and returns changed = True.
C1_AsStated ==
    (ret.called /\ TargetsFree) =>
        /\ \A ij \in Elems : After[Target(ij)] = Cell(Elem(ij))
        /\ Listed = {Name(rc) : rc \in Targets}
        /\ Len(ret.cell_list) = Cardinality(Targets)
        /\ ret.changed

\* C1 (amended): as above, with changed = True exactly when the block holds
\* at least one element; a 2-D block of empty sub-lists returns changed =
\* False and no address.
C1_EmptyTargetsFilled ==
    (ret.called /\ TargetsFree) =>
        /\ \A ij \in Elems : After[Target(ij)] = Cell(Elem(ij))
        /\ Listed = {Name(rc) : rc \in Targets}
        /\ Len(ret.cell_list) = Cardinality(Targets)
        /\ ret.changed <=> (Elems # {})

\* A ragged 2-D block written with override = False onto empty cells, on a
\* sheet that holds values elsewhere.
C1_Witness ==
    /\ ret.called /\ TargetsFree /\ ~IsFlat /\ ~args.override
    /\ Len(BlockRows) = 2 /\ Len(BlockRows[1]) = 2 /\ Len(BlockRows[2]) = 1
    /\ ret.changed /\ Len(ret.cell_list) = 3
    /\ \E rc \in Coords : Before[rc] = Cell(PyInt(1))

\* C2: a call with override = False leaves every cell that held a value
\* holding that value and lists none of them, whether or not the value
\* aimed at it equals the one it holds.  (Every call starts from the sheet
\* the previous calls left, so this is the step of the claim for sequences.)
C2_NoOverrideKeepsValues ==
    (ret.called /\ ~args.override) =>
        \A rc \in Coords :
            (~Before[rc].merged /\ Before[rc].value # None) =>
                /\ After[rc] = Before[rc]
                /\ Name(rc) \notin Listed

\* override = False aimed at one cell holding a different value and one
\* holding the same value; the call changed nothing.
C2_Witness ==
    /\ ret.called /\ ~args.override /\ IsFlat /\ Len(args.data) = 2
    /\ \A rc \in Targets : rc \in Coords /\ ~Before[rc].merged
    /\ Before[Target(<<1, 1>>)].value = PyInt(1) /\ Elem(<<1, 1>>) = PyStr("x")
    /\ Before[Target(<<1, 2>>)].value = PyInt(1) /\ Elem(<<1, 2>>) = PyInt(1)
    /\ ~ret.changed /\ ret.cell_list = <<>>

\* The cell element j of row i comes to: the j-th cell of its row, counted
\* from the anchor column, that is not a merged member (every merged member
\* on the way is passed over without using up an element).
Ordinary(row, from, to) == {c \in from..to : ~Before[<<row, c>>].merged}
LandingCols(a, ij) ==
    LET row == a.row + ij[1] - 1
    IN  {c \in Cols : /\ c >= a.col
                      /\ <<row, c>> \in Coords
                      /\ ~Before[<<row, c>>].merged
                      /\ Cardinality(Ordinary(row, a.col, c)) = ij[2]}
Landing(ij) ==
    LET a == Anchor
        cols == LandingCols(a, ij)
    IN  IF cols = {} THEN <<0, 0>>
        ELSE <<a.row + ij[1] - 1, CHOOSE c \in cols : TRUE>>

C4_MergedUntouched ==
    ret.called =>
        \A rc \in Coords :
            /\ After[rc].merged <=> Before[rc].merged
            /\ Before[rc].merged => (After[rc] = Before[rc] /\ Name(rc) \notin Listed)

\* A 2-D block written with override = True over a range holding a merged
\* member in each row, and cells changed in both rows.
C4_Witness ==
    /\ ret.called /\ args.override /\ ~IsFlat /\ Len(BlockRows) = 2
    /\ \A i \in 1..2 :
           /\ \E ij \in Elems :
                  ij[1] = i /\ Target(ij) \in Coords /\ Before[Target(ij)].merged
           /\ \E rc \in Modified : rc[1] = Anchor.row + i - 1

C6_ListIsModifiedSet ==
    ret.called =>
        /\ Listed = {Name(rc) : rc \in Modified}
        /\ Len(ret.cell_list) = Cardinality(Modified)

\* A call that over one range wrote some cells and left others (an equal
\* value, a merged member) alone.
C6_Witness ==
    /\ ret.called /\ ~IsFlat /\ args.override
    /\ Cardinality(Modified) = 2
    /\ \E ij \in Elems : Before[Landing(ij)].value # None /\ Landing(ij) \notin Modified
    /\ \E rc \in Coords : Before[rc].merged /\ rc[2] >= Anchor.col /\ rc[1] = Anchor.row

\* C7: changed is True exactly when the list returned is not empty.
C7_ChangedIffListed ==
    ret.called => (ret.changed <=> ret.cell_list # <<>>)

\* A 2-D block whose first sub-list changed a cell and whose last changed
\* none.
C7_Witness ==
    /\ ret.called /\ ~IsFlat /\ Len(BlockRows) = 2
    /\ ret.changed
    /\ \A rc \in Modified : rc[1] = Anchor.row
    /\ Len(BlockRows[2]) > 0

\* The order of the addresses by (column, row): column number first, then
\* row number.
ColRowLess(a, b) ==
    LET x == coordinate_to_tuple(a)
        y == coordinate_to_tuple(b)
    IN  x.col < y.col \/ (x.col = y.col /\ x.row < y.row)

\* C8 (as stated): the list returned is ascending by (column, row).
C8_AsStated ==
    ret.called =>
        \A k \in 1..(Len(ret.cell_list) - 1) :
            ColRowLess(ret.cell_list[k], ret.cell_list[k + 1])

\* C8 (amended): the list returned is ascending in the order of the address
\* strings, character by character (so "Y10" comes before "Y9" and "AA9"
\* before "Z9").
C8_SortedAsStrings ==
    ret.called =>
        \A k \in 1..(Len(ret.cell_list) - 1) :
            StrLess(ret.cell_list[k], ret.cell_list[k + 1])

\* A call that changed cells of row 9 and row 10 in column Z and a cell of
\* column AA.
C8_Witness ==
    /\ ret.called
    /\ {<<10, 26>>, <<9, 26>>, <<9, 27>>} \subseteq Modified
    /\ Len(ret.cell_list) = 3

\* main changed a cell: write_data_to_sheet was reached and returned
\* changed = True.
MainChanged == ret.called /\ ret.changed

\* C9 (as stated): main saves the workbook only when changed is True, and a
\* run that changed no cell leaves the file at path exactly as it was.
C9_AsStated ==
    out.status # "idle" =>
        /\ out.saves > 0 <=> MainChanged
        /\ ~MainChanged => file = file0

\* C9 (amended): main calls wb.save exactly when changed is True; a run
\* that changed no cell leaves the file at path exactly as it was unless
\* the recalculation it was asked for ran (Excel then saves the file).
C9_SavedOnlyWhenChanged ==
    out.status # "idle" =>
        /\ out.saves > 0 <=> MainChanged
        /\ (~MainChanged /\ out.recalcs = 0) => file = file0

\* A run that created the sheet it was given in the workbook object, changed
\* no cell and left the file with its one sheet.
C9_Witness ==
    /\ out.status = "exit" /\ ret.called /\ ~ret.changed
    /\ Len(wb) = 2 /\ Len(file.wb) = 1
    /\ out.saves = 0 /\ file = file0

\* How the last run of main failed: the file was missing, validate_data
\* raised, or the cell reference was refused (ValueError, reported by
\* fail_json, or an exception main does not catch).
MissingFile == out.msg = "The specified excel file does not exist"
InvalidShape ==
    /\ file0.kind # "missing"
    /\ validate_data(params.data) # ""
    /\ out.msg = validate_data(params.data)
MalformedAnchor ==
    out.msg \in {"Incorrect value for cell", "KeyError", "UnboundLocalError"}

\* C11: a run of main that fails on a missing file, on the shape of the
\* data or on the cell reference leaves the file at path exactly as it was,
\* without a save or a recalculation; when the shape is refused, no
\* workbook was loaded and write_data_to_sheet was not called.
C11_InputErrorAppliesNothing ==
    (out.status \in {"fail", "crash"} /\ (MissingFile \/ InvalidShape \/ MalformedAnchor)) =>
        /\ file = file0
        /\ out.saves = 0
        /\ out.recalcs = 0
        /\ ~ret.called
        /\ (MissingFile \/ InvalidShape) => (out.loads = 0 /\ wb = <<>>)

\* A run refused for its cell reference after grab_sheet had created the
\* sheet in the workbook object: the file still has its one sheet.
C11_Witness ==
    /\ out.status = "fail" /\ out.msg = "Incorrect value for cell"
    /\ Len(wb) = 2 /\ file.kind = "workbook" /\ Len(file.wb) = 1
    /\ file = file0 /\ out.closes = 1

\* C12 (as stated): a run on a workbook without the sheet named, with a
\* valid block and a valid cell reference, does not fail for the sheet and
\* leaves the file with that sheet appended after the sheets it had, which
\* are unchanged.
C12_AsStated ==
    (/\ out.status # "idle"
     /\ file0.kind = "workbook"
     /\ params.sheet # ""
     /\ ~HasSheet(file0.wb, params.sheet)
     /\ validate_data(params.data) = ""
     /\ coordinate_to_tuple(params.cell).err = ""
     /\ coordinate_to_tuple(params.cell).row >= 1) =>
        /\ ret.called
        /\ file.kind = "workbook"
        /\ sheetnames(file.wb) = Append(sheetnames(file0.wb), params.sheet)
        /\ \A k \in 1..Len(file0.wb) : file.wb[k] = file0.wb[k]

\* The evaluation asked for cannot be done on the host (unsupported
\* platform, Excel not installed, or xlwings missing), and the run failed
\* for it.
EvaluationImpossible == params.evaluate /\ evaluate_failure(params.host) # ""
EvaluationFailed ==
    /\ EvaluationImpossible
    /\ out.status = "fail"
    /\ out.msg = evaluate_failure(params.host)

\* C17: when a run changed cells and the evaluation it was asked for then
\* fails, the run fails and the file at path is the workbook as written
\* (saved once by wb.save, every listed cell holding the element written),
\* with no recalculation; and a run with evaluate = False never calls the
\* recalculation.
C17_WriteKeptWhenEvaluationFails ==
    out.status # "idle" =>
        /\ (EvaluationImpossible /\ MainChanged) =>
               /\ EvaluationFailed
               /\ file = BookFile(wb, "openpyxl")
               /\ file.wb # file0.wb
               /\ out.saves = 1
               /\ out.recalcs = 0
               /\ LET k == SheetIndex(file.wb, args.sheet_name)
                  IN  \A rc \in Coords :
                          Name(rc) \in Listed => file.wb[k].cells[rc] = Cell(args.data[1])
        /\ ~params.evaluate => (out.recalcs = 0 /\ ~out.evaluated)

\* A run on a host without Excel that overwrote the value of the first
\* cell and then failed: the file holds the new value.
C17_Witness ==
    /\ EvaluationFailed /\ MainChanged /\ params.host = "noexcel"
    /\ file0.wb[1].cells[<<FirstRow, FirstCol>>] = Cell(PyStr("x"))
    /\ file.wb[1].cells[<<FirstRow, FirstCol>>] = Cell(PyInt(1))
    /\ ret.cell_list = <<CellName(FirstRow, FirstCol)>>

\* ------------------------------------------------ validate_data, applied
\* The elements of the blocks given to validate_data: scalars (a bool is an
\* int), values that are neither scalars nor lists, and lists of at most
\* MaxSubLen such values.
MaxBlockLen == 2
MaxSubLen == 2

SubElems == {PyInt(1), PyStr("a"), None}

RECURSIVE SeqsUpTo(_, _)
SeqsUpTo(S, n) ==
    IF n = 0 THEN {<<>>}
    ELSE LET shorter == SeqsUpTo(S, n - 1)
         IN  shorter \cup {Append(q, e) : q \in {r \in shorter : Len(r) = n - 1}, e \in S}

RawElems ==
    {PyStr("a"), PyInt(1), PyFloat(2), PyBool(1), None, PyDict}
        \cup {PyList(q) : q \in SeqsUpTo(SubElems, MaxSubLen)}

RawBlocks == SeqsUpTo(RawElems, MaxBlockLen)

InitValidate ==
    /\ vdata \in RawBlocks
    /\ vres = "none"
    /\ wb = <<>>
    /\ pre = <<>>
    /\ args = NoArgs
    /\ ret = NoRet
    /\ file = NoFile
    /\ file0 = file
    /\ params = NoParams
    /\ out = Idle
    /\ LaterIdle

\* validate_data(vdata) returns True ("ok") or raises.
Validate ==
    /\ vres = "none"
    /\ \E v \in {validate_data(vdata)} : vres' = (IF v = "" THEN "ok" ELSE v)
    /\ UNCHANGED <<vdata, engineVars, mainVars, laterVars>>

NextValidate == Validate

SpecValidate == InitValidate /\ [][NextValidate]_vars

\* A scalar of the three permitted kinds (Python counts a bool as an int).
Permitted(v) == v.kind \in {"str", "int", "float", "bool"}
AllScalars(q) == \A k \in 1..Len(q) : Permitted(q[k])
AllRows(q) == \A k \in 1..Len(q) : q[k].kind = "list" /\ AllScalars(q[k].items)

\* C10: validate_data accepts a block exactly when it is not empty and
\* either all its elements are scalars or all its elements are lists of
\* scalars; it rejects the empty block, a block that starts with a scalar
\* and holds a non-scalar, a block that starts with a list and holds a
\* non-list or a sub-list with a non-scalar, and a block that starts with
\* neither.
C10_ValidateAccepts ==
    vres # "none" =>
        /\ vres = "ok" <=> (Len(vdata) > 0 /\ (AllScalars(vdata) \/ AllRows(vdata)))
        /\ Len(vdata) = 0 => vres = "Exception: Empty Data List"
        /\ (Len(vdata) > 0 /\ Permitted(vdata[1]) /\ ~AllScalars(vdata))
               => vres = "TypeError: list element"
        /\ (Len(vdata) > 0 /\ vdata[1].kind = "list" /\ ~AllRows(vdata))
               => vres \in {"TypeError: not a list", "TypeError: sublist element"}
        /\ (Len(vdata) > 0 /\ ~Permitted(vdata[1]) /\ vdata[1].kind # "list")
               => vres = "TypeError: unsupported data"

\* A block that starts with a valid sub-list and holds a sub-list with a
\* non-scalar was rejected.
C10_Witness ==
    /\ vres = "TypeError: sublist element"
    /\ Len(vdata) = 2
    /\ AllScalars(vdata[1].items) /\ Len(vdata[1].items) = 2
    /\ vdata[2].kind = "list"

\* ------------------------------------------------------------ the readers
\* A worksheet as the readers see it: its title and the rows iter_rows
\* yields, each the values of its cells from column 1 on (None for an empty
\* cell).  A row popped only when it is the last and every cell is None.
ReadSheetOf(title, rows) == [title |-> title, rows |-> rows]

\* [list(row) for row in sheet.iter_rows(values_only=True)], and
\* [cell.value for cell in row] for row in sheet.rows
iter_rows(sheet) == sheet.rows

\* all(cell is None for cell in row)
AllNone(row) == \A k \in 1..Len(row) : row[k] = None

\* The loop of read_sheet_data as an if: one row popped at most.
pop_trailing_once(data) ==
    IF data # <<>> /\ AllNone(data[Len(data)])
    THEN SubSeq(data, 1, Len(data) - 1)
    ELSE data

\* while data and all(cell is None for cell in data[-1]): data.pop()
RECURSIVE pop_trailing(_)
pop_trailing(data) ==
    IF data # <<>> /\ AllNone(data[Len(data)])
    THEN pop_trailing(SubSeq(data, 1, Len(data) - 1))
    ELSE data

\* excel_common.read_sheet_data(sheet)
read_sheet_data(sheet) == pop_trailing(iter_rows(sheet))

\* read_document.read_data(wb): the dict it builds, as the pairs (sheet
\* name, rows) in the order the keys were inserted.
read_data(book) == [k \in 1..Len(book) |-> <<book[k].title, iter_rows(book[k])>>]

\* A path is the sequence of its components, absolute when it starts at
\* "/"; os.path.abspath joins a relative one to the working directory.
Cwd == <<"/", "home">>
abspath(path) == IF path[1] = "/" THEN path ELSE Cwd \o path

\* How a reader ended and what it reported: msg is the text of the failure
\* in parts, content what results['content'] holds; opened counts the
\* workbooks load_workbook returned, closes the calls of wb.close and
\* recalcs the calls of Excel.
ReadOutcome(op, status, msg, path, sheet, sheets, content, evaluated, opened, closes, recalcs) ==
    [op |-> op, status |-> status, msg |-> msg, path |-> path, sheet |-> sheet,
     sheets |-> sheets, content |-> content, evaluated |-> evaluated,
     opened |-> opened, closes |-> closes, recalcs |-> recalcs]

ReadFailure(op, status, msg, opened, closes) ==
    ReadOutcome(op, status, msg, <<>>, "", <<>>, <<>>, FALSE, opened, closes, 0)

ReadRun(f, o) == [file |-> f, out |-> o]

\* read_sheet.main() with Excel asked to evaluate before the sheet is looked
\* for.
read_sheet_main_evaluates_first(f, p, host) ==
    IF f.kind = "missing"
    THEN ReadRun(f, ReadFailure("read_sheet", "fail",
                     <<"The specified excel file does not exist at ", p.path>>, 0, 0))
    ELSE IF f.kind = "corrupt"
    THEN ReadRun(f, ReadFailure("read_sheet", "fail", <<"Failed to open workbook">>, 0, 0))
    ELSE LET sheet_name == resolve_sheet(p.sheet, f.wb)
             g == IF p.evaluate /\ evaluate_failure(host) = ""
                  THEN evaluate_workbook_formulas(f) ELSE f
             n == IF p.evaluate /\ evaluate_failure(host) = "" THEN 1 ELSE 0
         IN  IF p.evaluate /\ evaluate_failure(host) # ""
             THEN ReadRun(f, ReadFailure("read_sheet", "fail",
                              <<evaluate_failure(host)>>, 1, 1))
             ELSE IF ~HasSheet(g.wb, sheet_name)
             THEN ReadRun(g, ReadOutcome("read_sheet", "fail",
                              <<"Worksheet '", sheet_name,
                                "' does not exist in Excel workbook ", abspath(p.path)>>,
                              <<>>, "", <<>>, <<>>, FALSE, 1 + n, 1 + n, n))
             ELSE ReadRun(g, ReadOutcome("read_sheet", "exit", <<>>, abspath(p.path),
                              sheet_name, <<>>,
                              read_sheet_data(g.wb[SheetIndex(g.wb, sheet_name)]),
                              p.evaluate, 1 + n, 1 + n, n))

\* read_sheet.main() with the file f at path, the parameters p and the host.
read_sheet_main(f, p, host) ==
    IF f.kind = "missing"
    THEN ReadRun(f, ReadFailure("read_sheet", "fail",
                     <<"The specified excel file does not exist at ", p.path>>, 0, 0))
    ELSE IF f.kind = "corrupt"
    THEN ReadRun(f, ReadFailure("read_sheet", "fail", <<"Failed to open workbook">>, 0, 0))
    ELSE LET sheet_name == resolve_sheet(p.sheet, f.wb)
             g == evaluate_workbook_formulas(f)
         IN  IF ~HasSheet(f.wb, sheet_name)
             THEN ReadRun(f, ReadFailure("read_sheet", "fail",
                              <<"Worksheet '", sheet_name,
                                "' does not exist in Excel workbook ", abspath(p.path)>>,
                              1, 1))
             ELSE IF p.evaluate /\ evaluate_failure(host) # ""
             THEN ReadRun(f, ReadFailure("read_sheet", "fail",
                              <<evaluate_failure(host)>>, 1, 1))
             ELSE IF p.evaluate
             THEN ReadRun(g, ReadOutcome("read_sheet", "exit", <<>>, abspath(p.path),
                              sheet_name, <<>>,
                              read_sheet_data(g.wb[SheetIndex(g.wb, sheet_name)]),
                              TRUE, 2, 2, 1))
             ELSE ReadRun(f, ReadOutcome("read_sheet", "exit", <<>>, abspath(p.path),
                              sheet_name, <<>>,
                              read_sheet_data(f.wb[SheetIndex(f.wb, sheet_name)]),
                              FALSE, 1, 1, 0))

\* read_document.main(): load_workbook is called outside any try (a file
\* openpyxl cannot open ends the process with its exception), the workbook
\* is loaded a second time before it is read, and wb.close is never called.
read_document_main(f, p, host) ==
    IF f.kind = "missing"
    THEN ReadRun(f, ReadFailure("read_document", "fail",
                     <<"The specified excel file does not exist at ", p.path>>, 0, 0))
    ELSE IF f.kind = "corrupt"
    THEN ReadRun(f, ReadFailure("read_document", "crash", <<"InvalidFileException">>, 0, 0))
    ELSE LET g == evaluate_workbook_formulas(f)
         IN  IF p.evaluate /\ evaluate_failure(host) # ""
             THEN ReadRun(f, ReadFailure("read_document", "fail",
                              <<evaluate_failure(host)>>, 1, 0))
             ELSE IF p.evaluate
             THEN ReadRun(g, ReadOutcome("read_document", "exit", <<>>, abspath(p.path),
                              "", sheetnames(f.wb), read_data(g.wb), TRUE, 2, 0, 1))
             ELSE ReadRun(f, ReadOutcome("read_document", "exit", <<>>, abspath(p.path),
                              "", sheetnames(f.wb), read_data(f.wb), FALSE, 2, 0, 0))

\* ------------------------------------------------------- the readers, run
\* The rows of a sheet: at most MaxRows rows, all of one width, each cell
\* None or a number.
MaxRows == 3
Widths == {1, 2}
ReadVals == {None, PyInt(1)}

RowsOfWidth(w) == [1..w -> ReadVals]
RowSets == UNION {SeqsUpTo(RowsOfWidth(w), MaxRows) : w \in Widths}

\* Workbooks of one sheet, and of two, the second empty or ending with an
\* empty row.
ReadBooks ==
    {<<ReadSheetOf("S1", rows)>> : rows \in RowSets}
        \cup {<<ReadSheetOf("S1", rows), ReadSheetOf("S2", more)>> :
                 rows \in RowSets, more \in {<<>>, <<<<PyInt(1)>>, <<None>>>>}}

ReadFiles == {NoFile, BadFile} \cup {BookFile(book, "openpyxl") : book \in ReadBooks}

Paths == {<<"book.xlsx">>, <<"/", "srv", "book.xlsx">>}

ReadSheetParams ==
    [path : Paths, sheet : {"", "S1", "S2"}, evaluate : BOOLEAN, host : Hosts]
ReadDocumentParams ==
    [path : Paths, sheet : {""}, evaluate : BOOLEAN, host : Hosts]

InitRead ==
    /\ file \in ReadFiles
    /\ file0 = file
    /\ wb = <<>>
    /\ pre = <<>>
    /\ args = NoArgs
    /\ ret = NoRet
    /\ params = NoParams
    /\ out = Idle
    /\ vdata = <<>>
    /\ vres = "none"
    /\ LaterIdle

\* One run of read_sheet on the file at path.
ReadSheet(p) ==
    /\ out.status = "idle"
    /\ \E m \in {read_sheet_main(file, p, p.host)} :
           /\ file' = m.file
           /\ out' = m.out
    /\ file0' = file
    /\ params' = p
    /\ UNCHANGED <<engineVars, validateVars, laterVars>>

\* One run of read_document on the file at path.
ReadDocument(p) ==
    /\ out.status = "idle"
    /\ \E m \in {read_document_main(file, p, p.host)} :
           /\ file' = m.file
           /\ out' = m.out
    /\ file0' = file
    /\ params' = p
    /\ UNCHANGED <<engineVars, validateVars, laterVars>>

NextRead ==
    \/ \E p \in ReadSheetParams : ReadSheet(p)
    \/ \E p \in ReadDocumentParams : ReadDocument(p)
    \/ NextTask

SpecRead == InitRead /\ [][NextRead]_vars

\* The text read_sheet fails with when the workbook has no sheet of the
\* name asked for.
SheetNotFound(sheet_name, path) ==
    <<"Worksheet '", sheet_name, "' does not exist in Excel workbook ", abspath(path)>>

\* C13: read_sheet asked for a sheet the workbook does not have fails with
\* the text that names the sheet asked for and the absolute path of the
\* workbook, whatever evaluate is and whatever the host; Excel is not
\* called, nothing is read and the file stays as it was.  No other run of
\* read_sheet fails with that text.
C13_SheetNotFound ==
    (out.status # "idle" /\ out.op = "read_sheet" /\ file0.kind = "workbook") =>
        IF params.sheet # "" /\ ~HasSheet(file0.wb, params.sheet)
        THEN /\ out.status = "fail"
             /\ out.msg = SheetNotFound(params.sheet, params.path)
             /\ out.recalcs = 0
             /\ ~out.evaluated
             /\ out.content = <<>>
             /\ file = file0
        ELSE out.msg # SheetNotFound(resolve_sheet(params.sheet, file0.wb), params.path)

\* read_sheet with evaluate = True on a host with Excel, a relative path
\* and a sheet the one-sheet workbook lacks.
C13_Witness ==
    /\ out.status = "fail" /\ out.op = "read_sheet"
    /\ params.evaluate /\ params.host = "excel"
    /\ params.sheet = "S2" /\ params.path = <<"book.xlsx">>
    /\ file0.kind = "workbook" /\ Len(file0.wb) = 1
    /\ out.msg = <<"Worksheet '", "S2", "' does not exist in Excel workbook ",
                   <<"/", "home", "book.xlsx">>>>
    /\ file = file0

\* C15 (as stated): the content read_document returns holds, for every
\* sheet in sheet order, the name of the sheet and the content read_sheet
\* returns for that sheet of the same file with the same evaluate.
C15_AsStated ==
    (out.status = "exit" /\ out.op = "read_document") =>
        /\ Len(out.content) = Len(file0.wb)
        /\ \A k \in 1..Len(file0.wb) :
               out.content[k] =
                   <<file0.wb[k].title,
                     read_sheet_main(file0,
                                     [path |-> params.path, sheet |-> file0.wb[k].title,
                                      evaluate |-> params.evaluate, host |-> params.host],
                                     params.host).out.content>>

MaxTrimRows == 5

TrimRowSets == UNION {SeqsUpTo(RowsOfWidth(w), MaxTrimRows) : w \in Widths}

TrimParams ==
    [path |-> <<"book.xlsx">>, sheet |-> "", evaluate |-> FALSE, host |-> "linux"]

InitTrim ==
    /\ \E rows \in TrimRowSets : file = BookFile(<<ReadSheetOf("S1", rows)>>, "openpyxl")
    /\ file0 = file
    /\ wb = <<>>
    /\ pre = <<>>
    /\ args = NoArgs
    /\ ret = NoRet
    /\ params = NoParams
    /\ out = Idle
    /\ vdata = <<>>
    /\ vres = "none"
    /\ LaterIdle

NextTrim ==
    \/ ReadSheet(TrimParams)
    \/ NextTask

SpecTrim == InitTrim /\ [][NextTrim]_vars

\* The rows of the sheet read and the rows returned.
Raw == iter_rows(file0.wb[1])
Got == out.content

\* C14: the rows read_sheet_data returns are the first rows of the sheet, in
\* order and unchanged (so every empty row followed by a row with a value
\* is kept); every row left out is empty; the last row returned holds a
\* value; and dropping the trailing empty rows of the result again returns
\* the result.
C14_TrailingEmptyRowsDropped ==
    (out.status = "exit" /\ out.op = "read_sheet") =>
        /\ Len(Got) <= Len(Raw)
        /\ Got = SubSeq(Raw, 1, Len(Got))
        /\ \A k \in (Len(Got) + 1)..Len(Raw) : AllNone(Raw[k])
        /\ Got # <<>> => ~AllNone(Got[Len(Got)])
        /\ read_sheet_data(ReadSheetOf("S1", Got)) = Got

\* The sheet [[1,1],[None,None],[1,None],[None,None],[None,None]] read
\* back as its first three rows.
C14_Witness ==
    /\ out.status = "exit" /\ out.op = "read_sheet"
    /\ Raw = <<<<PyInt(1), PyInt(1)>>, <<None, None>>, <<PyInt(1), None>>,
               <<None, None>>, <<None, None>>>>
    /\ Got = <<<<PyInt(1), PyInt(1)>>, <<None, None>>, <<PyInt(1), None>>>>

\* --------------------------------------- write_data_to_sheet, step by step
\* ws.cell(row=row, column=column): a cell the worksheet does not hold yet
\* is created, ordinary and empty, when it is asked for.  Every merged
\* member of the worksheet lies in the window, so the cells beyond it are
\* created this way.
cell_created(ws, rc) == IF rc \in DOMAIN ws THEN ws ELSE (rc :> Cell(None)) @@ ws

\* The sub-list write_row is working on: the block itself when it is flat.
row_elements(fr) == IF fr.flat THEN fr.data ELSE fr.data[fr.sub].items

\* The call write_row(row_elements, start_row): item_number = 0,
\* write_change = False, col = start_col.
enter_row(fr) ==
    [fr EXCEPT !.pc = "while", !.item_number = 0, !.write_change = FALSE,
               !.col = fr.start_col]

\* write_data_to_sheet from its entry to the first test of the while loop.
\* log records every call of write_cell: the sub-list and the element it
\* was made for, the cell, and the status returned.
enter(data, cell, ws, override) ==
    LET cell_coord == coordinate_to_tuple(cell)
    IN  enter_row([pc |-> "while", data |-> data, cell |-> cell, ws0 |-> ws,
                   override |-> override, flat |-> IsScalar(data[1]), sub |-> 1,
                   start_row |-> cell_coord.row, start_col |-> cell_coord.col,
                   col |-> cell_coord.col, item_number |-> 0,
                   write_change |-> FALSE, changed |-> FALSE,
                   cell_list |-> <<>>, ws |-> ws, log |-> <<>>])

\* One pass of the while loop with col += 1 left out on a merged cell.
write_row_step_stalls(fr) ==
    LET row == fr.start_row
        col == fr.col
        r == write_cell(cell_created(fr.ws, <<row, col>>),
                        row_elements(fr)[fr.item_number + 1], row, col, fr.override)
        called == [fr EXCEPT !.ws = r.ws,
                             !.log = Append(@, [sub |-> fr.sub, item |-> fr.item_number + 1,
                                                row |-> row, col |-> col,
                                                status |-> r.status])]
    IN  IF r.status = "skipped"
        THEN [called EXCEPT !.item_number = @ + 1, !.col = @ + 1]
        ELSE IF r.status = "True"
        THEN [called EXCEPT !.item_number = @ + 1, !.col = @ + 1,
                            !.write_change = TRUE,
                            !.cell_list = Append(@, CellName(row, col))]
        ELSE fr

\* One pass of the while loop of write_row (lines 183-190).
write_row_step(fr) ==
    LET row == fr.start_row
        col == fr.col
        r == write_cell(cell_created(fr.ws, <<row, col>>),
                        row_elements(fr)[fr.item_number + 1], row, col, fr.override)
        called == [fr EXCEPT !.ws = r.ws, !.col = @ + 1,
                             !.log = Append(@, [sub |-> fr.sub, item |-> fr.item_number + 1,
                                                row |-> row, col |-> col,
                                                status |-> r.status])]
    IN  IF r.status = "skipped"
        THEN [called EXCEPT !.item_number = @ + 1]
        ELSE IF r.status = "True"
        THEN [called EXCEPT !.item_number = @ + 1,
                            !.write_change = TRUE,
                            !.cell_list = Append(@, CellName(row, col))]
        ELSE called

\* write_row returns write_change: a flat block is done; for a 2-D block
\* changed is updated, start_row += 1, and the for loop goes to the next
\* sub-list or ends.  At the end cell_list.sort().
write_row_return(fr) ==
    IF fr.flat
    THEN [fr EXCEPT !.pc = "done", !.changed = fr.write_change,
                    !.cell_list = sort(@)]
    ELSE IF fr.sub = Len(fr.data)
    THEN [fr EXCEPT !.pc = "done", !.changed = @ \/ fr.write_change,
                    !.start_row = @ + 1, !.cell_list = sort(@)]
    ELSE enter_row([fr EXCEPT !.changed = @ \/ fr.write_change,
                              !.start_row = @ + 1, !.sub = @ + 1])

\* The worksheets the loops are stepped on: any cell of the window a merged
\* member (at most MaxMerged of them), the others all empty or all holding
\* a value.
RowCells ==
    {[rc \in Coords |-> IF rc \in merged THEN MergedCell ELSE c] :
        merged \in {m \in SUBSET Coords : Cardinality(m) <= MaxMerged},
        c \in {Cell(None), Cell(PyStr("x"))}}

InitRow ==
    /\ \E data \in DataBlocks, cell \in AnchorCells, cells \in RowCells,
          override \in BOOLEAN :
           frame = enter(data, cell, cells, override)
    /\ wb = <<>>
    /\ pre = <<>>
    /\ args = NoArgs
    /\ ret = NoRet
    /\ file = NoFile
    /\ file0 = file
    /\ params = NoParams
    /\ out = Idle
    /\ vdata = <<>>
    /\ vres = "none"
    /\ procs = NoProcs
    /\ saved = <<>>
    /\ rep = NoRep

\* while item_number < num_items: one pass.
WhileStep ==
    /\ frame.pc = "while"
    /\ frame.item_number < Len(row_elements(frame))
    /\ frame' = write_row_step(frame)
    /\ UNCHANGED <<engineVars, mainVars, validateVars, procs, saved, rep>>

\* The loop test fails and write_row returns.
RowReturn ==
    /\ frame.pc = "while"
    /\ frame.item_number >= Len(row_elements(frame))
    /\ frame' = write_row_return(frame)
    /\ UNCHANGED <<engineVars, mainVars, validateVars, procs, saved, rep>>

NextRow ==
    \/ WhileStep
    \/ RowReturn

\* The interpreter keeps running the function until it returns.
SpecRow == InitRow /\ [][NextRow]_vars /\ WF_vars(NextRow)

\* The calls of write_cell made for sub-list i, in the order made.
RECURSIVE CallsOf(_, _)
CallsOf(log, i) ==
    IF log = <<>> THEN <<>>
    ELSE IF Head(log).sub = i THEN <<Head(log)>> \o CallsOf(Tail(log), i)
    ELSE CallsOf(Tail(log), i)

FrameRows ==
    IF frame.flat THEN <<frame.data>>
    ELSE [i \in 1..Len(frame.data) |-> frame.data[i].items]

\* When write_data_to_sheet has returned: for every sub-list i, the calls of
\* write_cell made for it are on row anchor_row + i - 1, on the columns
\* from the anchor column on without a gap; every element was the subject
\* of exactly one call that wrote it or skipped an occupied cell, the
\* elements in order; and every other call met a merged member.
TraversalComplete ==
    LET a == coordinate_to_tuple(frame.cell)
    IN  \A i \in 1..Len(FrameRows) :
            LET calls == CallsOf(frame.log, i)
                used == {k \in 1..Len(calls) : calls[k].status # "False"}
            IN  /\ \A k \in 1..Len(calls) :
                       /\ calls[k].row = a.row + i - 1
                       /\ calls[k].col = a.col + k - 1
                       /\ calls[k].status = "False" =>
                              frame.ws0[<<calls[k].row, calls[k].col>>].merged
                       /\ calls[k].item = Cardinality({m \in used : m < k}) + 1
                /\ Cardinality(used) = Len(FrameRows[i])
                /\ Len(FrameRows[i]) > 0 => Len(calls) \in used

\* C18: write_data_to_sheet always returns (each write_row ends), and when
\* it has returned every sub-list of the block has been traversed on its
\* own row with every element written or skipped on an occupied cell.
C18_TraversalTerminates ==
    /\ <>(frame.pc = "done")
    /\ [](frame.pc = "done" => TraversalComplete)

\* A 2-D block of two sub-lists returned after its first sub-list passed a
\* merged member and went on beyond the window, and its second was
\* traversed on the next row.
C18_Witness ==
    /\ frame.pc = "done" /\ ~frame.flat /\ Len(frame.data) = 2
    /\ \E k \in 1..Len(frame.log) :
           frame.log[k].sub = 1 /\ frame.log[k].status = "False"
    /\ \E k \in 1..Len(frame.log) :
           frame.log[k].sub = 1 /\ frame.log[k].col > LastCol
    /\ \E k \in 1..Len(frame.log) :
           frame.log[k].sub = 2 /\ frame.log[k].status = "skipped"

\* ------------------------------------------- two runs of main on one path
\* A process running write_sheet.main: where it is (pc), its parameters,
\* the workbook load_workbook gave it (loaded), its workbook object (book)
\* and what write_data_to_sheet returned to it.
Proc(pc, p, loaded, book, changed, cell_list) ==
    [pc |-> pc, p |-> p, loaded |-> loaded, book |-> book,
     changed |-> changed, cell_list |-> cell_list]

\* wb = load_workbook(filename=filepath): the process gets its own copy of
\* the workbook the file holds at that moment.
proc_load(pr, f) ==
    [pr EXCEPT !.pc = "loaded", !.loaded = f.wb, !.book = f.wb]

\* write_data_to_sheet on the workbook the file holds now instead of the
\* copy loaded (as if the file were locked from the load to the save).
proc_write_on_file(pr, f) ==
    LET r == write_data_to_sheet(pr.p.data, pr.p.cell, f.wb,
                                 resolve_sheet(pr.p.sheet, f.wb), pr.p.override)
    IN  [pr EXCEPT !.pc = "written", !.book = r.wb, !.changed = r.changed,
                   !.cell_list = r.cell_list]

\* changed, cell_changed_list = write_data_to_sheet(data, cell, wb, ...)
\* on the process's own workbook object; the file f is not looked at.
proc_write(pr, f) ==
    LET r == write_data_to_sheet(pr.p.data, pr.p.cell, pr.book,
                                 resolve_sheet(pr.p.sheet, pr.book), pr.p.override)
    IN  [pr EXCEPT !.pc = "written", !.book = r.wb, !.changed = r.changed,
                   !.cell_list = r.cell_list]

\* The parameters of the processes: valid blocks and cell references, an
\* existing or a new sheet, no evaluation.
ConcParams ==
    [data : {<<PyStr("x")>>, <<PyInt(1)>>, <<PyStr("x"), PyInt(1)>>},
     cell : {CellName(FirstRow, FirstCol), CellName(FirstRow, FirstCol + 1)},
     sheet : {"S1", "S2"}, override : BOOLEAN, evaluate : {FALSE}, host : {"linux"}]

ConcFiles == {BookFile(<<Sheet("S1", FirstCellAs(c))>>, "excel") : c \in CellStates}

InitConc ==
    /\ file \in ConcFiles
    /\ file0 = file
    /\ \E p1 \in ConcParams, p2 \in ConcParams :
           procs = <<Proc("start", p1, <<>>, <<>>, FALSE, <<>>),
                     Proc("start", p2, <<>>, <<>>, FALSE, <<>>)>>
    /\ saved = <<>>
    /\ wb = <<>>
    /\ pre = <<>>
    /\ args = NoArgs
    /\ ret = NoRet
    /\ params = NoParams
    /\ out = Idle
    /\ vdata = <<>>
    /\ vres = "none"
    /\ frame = NoFrame
    /\ rep = NoRep

\* Process i loads the workbook.
ProcLoad(i) ==
    /\ procs[i].pc = "start"
    /\ procs' = [procs EXCEPT ![i] = proc_load(procs[i], file)]
    /\ UNCHANGED <<file, file0, saved, engineVars, params, out, validateVars, frame, rep>>

\* Process i writes the block into its workbook object.
ProcWrite(i) ==
    /\ procs[i].pc = "loaded"
    /\ procs' = [procs EXCEPT ![i] = proc_write(procs[i], file)]
    /\ UNCHANGED <<file, file0, saved, engineVars, params, out, validateVars, frame, rep>>

\* Process i saves if changed, closes and exits.
ProcSave(i) ==
    /\ procs[i].pc = "written"
    /\ file' = save_if_changed(procs[i].changed, procs[i].book, file)
    /\ saved' = IF procs[i].changed THEN Append(saved, i) ELSE saved
    /\ procs' = [procs EXCEPT ![i].pc = "done"]
    /\ UNCHANGED <<file0, engineVars, params, out, validateVars, frame, rep>>

NextConc ==
    \E i \in 1..2 :
        \/ ProcLoad(i)
        \/ ProcWrite(i)
        \/ ProcSave(i)

SpecConc == InitConc /\ [][NextConc]_vars

\* What process i alone would have made of the workbook it loaded.
OwnResult(i) ==
    write_data_to_sheet(procs[i].p.data, procs[i].p.cell, procs[i].loaded,
                        resolve_sheet(procs[i].p.sheet, procs[i].loaded),
                        procs[i].p.override)

AllDone == \A i \in 1..2 : procs[i].pc = "done"

RepeatBlocks == DataBlocks \cup {<<PyFloat(1)>>, <<PyNaN>>, <<PyStr("x"), PyNaN>>}

\* The worksheets written twice: any cell of the window a merged member (at
\* most MaxMerged of them), the others all empty or all holding one value.
RepeatCells ==
    {[rc \in Coords |-> IF rc \in merged THEN MergedCell ELSE c] :
        merged \in {m \in SUBSET Coords : Cardinality(m) <= MaxMerged},
        c \in {Cell(None), Cell(PyStr("x")), Cell(PyInt(1))}}

InitRepeat ==
    /\ \E cells \in RepeatCells : wb = <<Sheet("S1", cells)>>
    /\ pre = wb
    /\ args = NoArgs
    /\ ret = NoRet
    /\ file = NoFile
    /\ file0 = file
    /\ params = NoParams
    /\ out = Idle
    /\ vdata = <<>>
    /\ vres = "none"
    /\ LaterIdle

\* The call just made is made again, with the same arguments, on the
\* workbook it left.
Repeat ==
    /\ ret.called
    /\ ~rep.called
    /\ \E r \in {write_data_to_sheet(args.data, args.cell, wb, args.sheet_name,
                                     args.override)} :
           rep' = [called |-> TRUE, changed |-> r.changed,
                   cell_list |-> r.cell_list, wb |-> r.wb]
    /\ UNCHANGED <<engineVars, mainVars, validateVars, frame, procs, saved>>

NextRepeat ==
    \/ \E data \in RepeatBlocks, cell \in AnchorCells, override \in BOOLEAN :
           WriteDataToSheet(data, cell, "S1", override)
    \/ Repeat

SpecRepeat == InitRepeat /\ [][NextRepeat]_vars

\* C20 (as stated): the repetition of a call returns changed = False and an
\* empty list and leaves every cell as the first call left it.
C20_AsStated ==
    rep.called =>
        /\ ~rep.changed
        /\ rep.cell_list = <<>>
        /\ rep.wb = wb

====
